---------------------------- MODULE Spec2Model ----------------------------
(***************************************************************************)
(* A model of the call-trace parse engine of syzygy                        *)
(* (syzygy/trace/parse/parse_engine.cc): the per-process module spaces,    *)
(* the module tracker (AddModuleInformation, RemoveModuleInformation,      *)
(* RemoveProcessInformation, GetModuleInformation) and the event           *)
(* dispatcher with its fault latch.                                        *)
(***************************************************************************)
EXTENDS Integers, Sequences, FiniteSets, TLC

VARIABLES
  processes,                 \* processes_: process id -> ModuleSpace
  error_occurred_,           \* the fault latch
  fail_on_module_conflict_   \* the conflict policy, fixed at construction

vars == <<processes, error_occurred_, fail_on_module_conflict_>>

----------------------------------------------------------------------------
(* Bounds of the model.                                                    *)

\* Process ids are 1..MaxPid; addresses are 0..MaxAddr, a module lies below
\* MaxAddr; the registry holds at most MaxModules entries over all processes.
MaxPid == 2
MaxAddr == 3
MaxModules == 2

Pids == 1..MaxPid
Bases == 0..(MaxAddr - 1)
Sizes == 0..(MaxAddr - 1)

\* Paths are sequences of components; the empty sequence is the empty path.
\* The (path, checksum, time stamp) triples modules are drawn from: an
\* image, the same image under a device path, and images that differ from it
\* in exactly one of checksum, time stamp and basename; and an empty path.
Images ==
  { [path |-> <<"C:", "a.dll">>,     module_checksum |-> 1, module_time_date_stamp |-> 1],
    [path |-> <<"Device", "a.dll">>, module_checksum |-> 1, module_time_date_stamp |-> 1],
    [path |-> <<"C:", "a.dll">>,     module_checksum |-> 2, module_time_date_stamp |-> 1],
    [path |-> <<"C:", "a.dll">>,     module_checksum |-> 1, module_time_date_stamp |-> 2],
    [path |-> <<"C:", "b.dll">>,     module_checksum |-> 1, module_time_date_stamp |-> 1],
    [path |-> <<>>,                  module_checksum |-> 1, module_time_date_stamp |-> 1] }

\* ModuleInformation values handed to the module tracker; a module is
\* loaded at a non-null address.
ModuleInformation ==
  { m \in { [base_address |-> b, module_size |-> s, path |-> i.path,
             module_checksum |-> i.module_checksum,
             module_time_date_stamp |-> i.module_time_date_stamp] :
               b \in Bases \ {0}, s \in Sizes, i \in Images } :
      m.base_address + m.module_size <= MaxAddr }

----------------------------------------------------------------------------
(* Ranges and the address space (interval map) behind a ModuleSpace.       *)

\* ModuleSpace::Range(addr, size): the half-open range [start, start + size).
Range(start, size) == [start |-> start, size |-> size]

RangeEnd(r) == r.start + r.size

\* Two half-open ranges intersect.
Intersects(r1, r2) == r1.start < RangeEnd(r2) /\ r2.start < RangeEnd(r1)

\* The range an entry is stored under: AddModuleInformation keys an entry by
\* its own base address and size.
EntryRange(e) == Range(e.base_address, e.module_size)

\* AnnotatedModuleInformation(module_info): the module with is_dirty = false.
AnnotatedModuleInformation(m) ==
  [base_address |-> m.base_address, module_size |-> m.module_size,
   path |-> m.path, module_checksum |-> m.module_checksum,
   module_time_date_stamp |-> m.module_time_date_stamp, is_dirty |-> FALSE]

\* The ModuleInformation part of a stored entry.
InfoOf(e) ==
  [base_address |-> e.base_address, module_size |-> e.module_size,
   path |-> e.path, module_checksum |-> e.module_checksum,
   module_time_date_stamp |-> e.module_time_date_stamp]

NoEntry == [none |-> TRUE]

\* Sort order of the map: by start, then by end.
RangeLess(r1, r2) ==
  \/ r1.start < r2.start
  \/ r1.start = r2.start /\ RangeEnd(r1) < RangeEnd(r2)

\* FindFirstIntersection: the first stored entry, in sort order, whose
\* range intersects the argument; NoEntry stands for end().
FindFirstIntersection(space, range) ==
  LET hits == { e \in space : Intersects(EntryRange(e), range) }
  IN  IF hits = {} THEN NoEntry
      ELSE CHOOSE e \in hits :
             \A f \in hits : f = e \/ ~RangeLess(EntryRange(f), EntryRange(e))

\* FindOrInsert: inserts the entry when no stored range intersects the
\* argument and reports true; otherwise leaves the map alone, points iter
\* at the first intersecting entry and reports false.
FindOrInsert(space, range, value) ==
  LET it == FindFirstIntersection(space, range)
  IN  IF it = NoEntry
        THEN [space |-> space \cup {value}, inserted |-> TRUE, iter |-> value]
        ELSE [space |-> space, inserted |-> FALSE, iter |-> it]

\* Remove(range): drops the entry stored under exactly this range.
Remove(space, range) == { e \in space : EntryRange(e) # range }

----------------------------------------------------------------------------
(* The process registry.                                                   *)

\* processes_.find(pid) != end()
Known(procs, pid) == pid \in DOMAIN procs

\* The ModuleSpace of a pid; an unknown pid has none (the empty set here).
SpaceOf(procs, pid) == IF Known(procs, pid) THEN procs[pid] ELSE {}

\* A variant that stores the space under every pid of the registry.
WithSpaceEveryPid(procs, pid, space) ==
  [p \in (DOMAIN procs) \cup {pid} |-> space]

\* processes_[pid] = space, creating the pid's entry when it is missing.
WithSpace(procs, pid, space) ==
  [p \in (DOMAIN procs) \cup {pid} |-> IF p = pid THEN space ELSE procs[p]]

\* base::FilePath::BaseName(): the last component of the path.
BaseName(path) == IF path = <<>> THEN <<>> ELSE <<path[Len(path)]>>


----------------------------------------------------------------------------
(* The module tracker.  Every operation is a function of the registry (and *)
(* of the conflict policy) that yields the new registry, the value the     *)
(* code returns, and which of its exits was taken.                         *)

\* A variant that takes the range to be one byte long.
ModuleRangeOneByte(m) == Range(m.base_address, 1)

\* The range AddModuleInformation / RemoveModuleInformation build from a
\* module: Range(base_address, module_size).
ModuleRange(m) == Range(m.base_address, m.module_size)

\* A variant of the test that wants the whole path to agree.
SameModuleSamePath(m, e) ==
  /\ m.base_address = e.base_address
  /\ m.module_checksum = e.module_checksum
  /\ m.module_size = e.module_size
  /\ m.module_time_date_stamp = e.module_time_date_stamp
  /\ m.path = e.path

\* The test for "the same module under another path": base address,
\* checksum, size and time stamp agree, and so do the paths' basenames.
SameModule(m, e) ==
  /\ m.base_address = e.base_address
  /\ m.module_checksum = e.module_checksum
  /\ m.module_size = e.module_size
  /\ m.module_time_date_stamp = e.module_time_date_stamp
  /\ BaseName(m.path) = BaseName(e.path)

\* The loop that drops dirty entries in the way of the new module: while the
\* colliding entry is dirty, remove it and insert again.  Yields the space,
\* whether the module got in, the entry it last collided with and the
\* number of entries removed.
\* Variants of the loop with a slip in it: one that removes the dirty entry
\* and inserts without looking for another collision, and one that tries
\* once (an if for the while).
EvictDirtyNoRecheck(space, range, new_module_info, iter, removed) ==
  IF iter.is_dirty
    THEN [space |-> Remove(space, EntryRange(iter)) \cup {new_module_info},
          inserted |-> TRUE, iter |-> new_module_info, removed |-> removed + 1]
    ELSE [space |-> space, inserted |-> FALSE, iter |-> iter,
          removed |-> removed]

EvictDirtyOnce(space, range, new_module_info, iter, removed) ==
  IF iter.is_dirty
    THEN LET again == FindOrInsert(Remove(space, EntryRange(iter)), range,
                                   new_module_info)
         IN  [space |-> again.space, inserted |-> again.inserted,
              iter |-> again.iter, removed |-> removed + 1]
    ELSE [space |-> space, inserted |-> FALSE, iter |-> iter,
          removed |-> removed]

\* A variant that clears every entry in the way, dirty or not.
EvictOverlapping(space, range, new_module_info, iter, removed) ==
  LET rest == { e \in space : ~Intersects(EntryRange(e), range) }
  IN  [space |-> rest \cup {new_module_info}, inserted |-> TRUE,
       iter |-> new_module_info,
       removed |-> removed + Cardinality(space \ rest)]

RECURSIVE EvictDirty(_, _, _, _, _)
EvictDirty(space, range, new_module_info, iter, removed) ==
  IF iter.is_dirty
    THEN LET smaller == Remove(space, EntryRange(iter))
             again == FindOrInsert(smaller, range, new_module_info)
         IN  IF again.inserted
               THEN [space |-> again.space, inserted |-> TRUE,
                     iter |-> again.iter, removed |-> removed + 1]
               ELSE EvictDirty(again.space, range, new_module_info,
                               again.iter, removed + 1)
    ELSE [space |-> space, inserted |-> FALSE, iter |-> iter,
          removed |-> removed]

\* ParseEngine::AddModuleInformation(process_id, module_info).
\*   first: what the first FindOrInsert reported ("none" when not called).
AddModuleInformation(procs, fail, pid, m) ==
  IF m.module_size = 0 \/ m.path = <<>>
    THEN [processes |-> procs, ret |-> TRUE, exit |-> "skipped",
          first |-> "none", removed |-> 0]
    ELSE
      LET module_space == SpaceOf(procs, pid)
          range == ModuleRange(m)
          new_module_info == AnnotatedModuleInformation(m)
          found == FindOrInsert(module_space, range, new_module_info)
      IN  IF found.inserted
            THEN [processes |-> WithSpace(procs, pid, found.space),
                  ret |-> TRUE, exit |-> "inserted",
                  first |-> TRUE, removed |-> 0]
          ELSE IF SameModule(m, found.iter)
            THEN [processes |-> WithSpace(procs, pid, found.space),
                  ret |-> TRUE, exit |-> "same",
                  first |-> FALSE, removed |-> 0]
          ELSE
            LET loop == EvictDirty(found.space, range, new_module_info,
                                   found.iter, 0)
            IN  IF loop.inserted
                  THEN [processes |-> WithSpace(procs, pid, loop.space),
                        ret |-> TRUE, exit |-> "replaced",
                        first |-> FALSE, removed |-> loop.removed]
                  ELSE [processes |-> WithSpace(procs, pid, loop.space),
                        ret |-> ~fail, exit |-> "conflict",
                        first |-> FALSE, removed |-> loop.removed]

\* A variant without the early returns for an empty module or path.
RemoveModuleInformationNoSkip(procs, fail, pid, m) ==
  LET module_space == SpaceOf(procs, pid)
      range == ModuleRange(m)
      it == FindFirstIntersection(module_space, range)
  IN  IF it = NoEntry
        THEN [processes |-> WithSpace(procs, pid, module_space),
              ret |-> TRUE, exit |-> "absent"]
      ELSE IF EntryRange(it) # range /\ fail
        THEN [processes |-> WithSpace(procs, pid, module_space),
              ret |-> FALSE, exit |-> "mismatch"]
      ELSE [processes |->
              WithSpace(procs, pid,
                (module_space \ {it}) \cup {[it EXCEPT !.is_dirty = TRUE]}),
            ret |-> TRUE,
            exit |-> IF EntryRange(it) # range THEN "mismatch" ELSE "dirtied"]

\* A variant that finds the entry and leaves its flag alone.
RemoveModuleInformationNoMark(procs, fail, pid, m) ==
  [processes |->
     IF m.module_size = 0 \/ m.path = <<>>
       THEN procs ELSE WithSpace(procs, pid, SpaceOf(procs, pid)),
   ret |-> TRUE, exit |-> "skipped"]

\* ParseEngine::RemoveModuleInformation(process_id, module_info).
RemoveModuleInformation(procs, fail, pid, m) ==
  IF m.module_size = 0 \/ m.path = <<>>
    THEN [processes |-> procs, ret |-> TRUE, exit |-> "skipped"]
    ELSE
      LET module_space == SpaceOf(procs, pid)
          range == ModuleRange(m)
          it == FindFirstIntersection(module_space, range)
      IN  IF it = NoEntry
            THEN [processes |-> WithSpace(procs, pid, module_space),
                  ret |-> TRUE, exit |-> "absent"]
          ELSE IF EntryRange(it) # range /\ fail
            THEN [processes |-> WithSpace(procs, pid, module_space),
                  ret |-> FALSE, exit |-> "mismatch"]
          ELSE [processes |->
                  WithSpace(procs, pid,
                    (module_space \ {it}) \cup {[it EXCEPT !.is_dirty = TRUE]}),
                ret |-> TRUE,
                exit |-> IF EntryRange(it) # range THEN "mismatch" ELSE "dirtied"]

\* A variant that drops the process with its ModuleSpace.
RemoveProcessInformationErase(procs, pid) ==
  IF ~Known(procs, pid)
    THEN [processes |-> procs, ret |-> FALSE, exit |-> "unknown"]
    ELSE [processes |-> [p \in (DOMAIN procs) \ {pid} |-> procs[p]],
          ret |-> TRUE, exit |-> "dirtied"]

\* ParseEngine::RemoveProcessInformation(process_id).
RemoveProcessInformation(procs, pid) ==
  IF ~Known(procs, pid)
    THEN [processes |-> procs, ret |-> FALSE, exit |-> "unknown"]
    ELSE [processes |->
            [procs EXCEPT ![pid] = { [e EXCEPT !.is_dirty = TRUE] : e \in procs[pid] }],
          ret |-> TRUE, exit |-> "dirtied"]

\* A variant that passes over dirty entries.
GetModuleInformationLiveOnly(procs, pid, addr) ==
  IF ~Known(procs, pid)
    THEN NoEntry
    ELSE FindFirstIntersection({ e \in procs[pid] : ~e.is_dirty },
                               Range(addr, 1))

\* A variant whose query range starts one byte early.
GetModuleInformationFromBelow(procs, pid, addr) ==
  IF ~Known(procs, pid)
    THEN NoEntry
    ELSE FindFirstIntersection(procs[pid], Range(addr - 1, 2))

\* ParseEngine::GetModuleInformation(process_id, addr): the stored entry
\* whose range holds addr, NoEntry for nullptr.
GetModuleInformation(procs, pid, addr) ==
  IF ~Known(procs, pid)
    THEN NoEntry
    ELSE FindFirstIntersection(procs[pid], Range(addr, 1))


----------------------------------------------------------------------------
(* Event records.  A record is its header (class GUID, type, process id,   *)
(* MofLength) and what its payload bytes decode to.                        *)

\* size_t and the payload's count fields are machine words: arithmetic on
\* them wraps.  The words of the 32-bit build are scaled down to SizeTBits
\* bits, which keeps every structure size below the modulus.
SizeTBits == 16
SizeT(n) == n % (2 ^ SizeTBits)

\* Sizes and field offsets of the payload structures, in bytes.
SizeofTraceEnterExitEventData == 8
OffsetofBatchCalls == 8
SizeofCall == 8
SizeofInvocationInfo == 40
SizeofTraceModuleData == 1048
SizeofTraceIndexedFrequencyData == 28
OffsetofSymbolName == 4
SizeofTraceSampleData == 64
OffsetofBuckets == 56
SizeofBucket == 4
SizeofTraceFunctionNameTableEntry == 12
OffsetofName == 8
SizeofTraceStackTrace == 12
OffsetofFrames == 8
SizeofPointer == 4
SizeofTraceDetailedFunctionCall == 24
OffsetofArgumentData == 20
SizeofTraceComment == 8
OffsetofComment == 4
SizeofTraceProcessHeap == 4

\* BinaryBufferReader over MofLength bytes: Read(n) and Consume(n) succeed
\* iff n bytes remain after the pos bytes already taken.
ReaderCanTake(MofLength, pos, n) == pos + n <= MofLength

\* ModuleTraceDataToModuleInformation: copies the record's fields; the base
\* address is the pointer's 32 bits.
ModuleTraceDataToModuleInformation(data) ==
  [base_address |-> SizeT(data.module_base_addr),
   module_size |-> data.module_base_size,
   path |-> data.module_name,
   module_checksum |-> data.module_checksum,
   module_time_date_stamp |-> data.module_time_date_stamp]

\* One handler callback: its name, the process id it got, a count it got
\* (batch sizes; 0 where there is none) and the registry at that moment.
Call(cb, pid, n, procs) == [cb |-> cb, pid |-> pid, n |-> n, procs |-> procs]

\* What a per-kind dispatcher yields.
Failed(procs) == [success |-> FALSE, calls |-> <<>>, processes |-> procs]
Done(procs, calls) == [success |-> TRUE, calls |-> calls, processes |-> procs]


----------------------------------------------------------------------------
(* The per-kind dispatchers.                                               *)

\* ParseEngine::DispatchEntryExitEvent(event, type).
DispatchEntryExitEvent(procs, ev) ==
  IF ~ReaderCanTake(ev.MofLength, 0, SizeofTraceEnterExitEventData)
    THEN Failed(procs)
    ELSE Done(procs,
              << Call(IF ev.Type = "TRACE_ENTER_EVENT"
                        THEN "OnFunctionEntry" ELSE "OnFunctionExit",
                      ev.ProcessId, 0, procs) >>)

\* A variant that hands the batch on as it came.
DispatchBatchEnterEventUntrimmed(procs, ev) ==
  IF \/ ~ReaderCanTake(ev.MofLength, 0, OffsetofBatchCalls)
     \/ ~ReaderCanTake(ev.MofLength, OffsetofBatchCalls,
                       SizeT(ev.data.num_calls * SizeofCall))
    THEN Failed(procs)
    ELSE Done(procs,
              << Call("OnBatchFunctionEntry", ev.ProcessId,
                      ev.data.num_calls, procs) >>)

\* ParseEngine::DispatchBatchEnterEvent(event).  data.calls holds the
\* function of every call record the payload carries; when num_calls
\* passes the length test by wrapping, calls[num_calls - 1] lies outside
\* the payload and the word read there is data.beyond, whatever the memory
\* holds.
DispatchBatchEnterEvent(procs, ev) ==
  IF ~ReaderCanTake(ev.MofLength, 0, OffsetofBatchCalls)
    THEN Failed(procs)
    ELSE
      LET bytes_needed == SizeT(ev.data.num_calls * SizeofCall)
      IN  IF ~ReaderCanTake(ev.MofLength, OffsetofBatchCalls, bytes_needed)
            THEN Failed(procs)
            ELSE
              LET n == ev.data.num_calls
                  last_is_null ==
                    /\ n # 0
                    /\ IF n <= Len(ev.data.calls)
                         THEN ev.data.calls[n] = 0
                         ELSE ev.data.beyond = 0
                  trimmed == IF last_is_null THEN n - 1 ELSE n
              IN  Done(procs,
                       << Call("OnBatchFunctionEntry", ev.ProcessId,
                               trimmed, procs) >>)

\* A variant that drops what RemoveProcessInformation returns.
DispatchProcessEndedEventUnchecked(procs, ev) ==
  [success |-> TRUE,
   calls |-> << Call("OnProcessEnded", ev.ProcessId, 0, procs) >>,
   processes |-> RemoveProcessInformation(procs, ev.ProcessId).processes]

\* ParseEngine::DispatchProcessEndedEvent(event).
DispatchProcessEndedEvent(procs, ev) ==
  LET removed == RemoveProcessInformation(procs, ev.ProcessId)
  IN  [success |-> removed.ret,
       calls |-> << Call("OnProcessEnded", ev.ProcessId, 0, procs) >>,
       processes |-> removed.processes]

\* A variant without the test of the length's remainder.
DispatchBatchInvocationEventAnyLength(procs, ev) ==
  IF ~ReaderCanTake(ev.MofLength, 0, ev.MofLength)
    THEN Failed(procs)
    ELSE Done(procs,
              << Call("OnInvocationBatch", ev.ProcessId,
                      ev.MofLength \div SizeofInvocationInfo, procs) >>)

\* ParseEngine::DispatchBatchInvocationEvent(event).
DispatchBatchInvocationEvent(procs, ev) ==
  IF ev.MofLength % SizeofInvocationInfo # 0
    THEN Failed(procs)
  ELSE IF ~ReaderCanTake(ev.MofLength, 0, ev.MofLength)
    THEN Failed(procs)
  ELSE Done(procs,
            << Call("OnInvocationBatch", ev.ProcessId,
                    ev.MofLength \div SizeofInvocationInfo, procs) >>)

\* ParseEngine::DispatchThreadNameEvent(event).  ReadString needs the
\* terminating NUL inside the payload.
DispatchThreadNameEvent(procs, ev) ==
  IF ~ev.data.terminated
    THEN Failed(procs)
    ELSE Done(procs, << Call("OnThreadName", ev.ProcessId, 0, procs) >>)

\* ParseEngine::DispatchIndexedFrequencyEvent(event).
DispatchIndexedFrequencyEvent(procs, ev) ==
  IF ev.MofLength < SizeofTraceIndexedFrequencyData
    THEN Failed(procs)
  ELSE IF ~ReaderCanTake(ev.MofLength, 0, SizeofTraceIndexedFrequencyData)
    THEN Failed(procs)
  ELSE
    LET expected_length ==
          SizeT(SizeT(ev.data.frequency_size * ev.data.num_entries)
                + SizeofTraceIndexedFrequencyData - 1)
    IN  IF ev.MofLength < expected_length
          THEN Failed(procs)
          ELSE Done(procs,
                    << Call("OnIndexedFrequency", ev.ProcessId, 0, procs) >>)

\* ParseEngine::DispatchDynamicSymbolEvent(event).
DispatchDynamicSymbolEvent(procs, ev) ==
  IF \/ ~ReaderCanTake(ev.MofLength, 0, OffsetofSymbolName)
     \/ ~ev.data.terminated
    THEN Failed(procs)
    ELSE Done(procs, << Call("OnDynamicSymbol", ev.ProcessId, 0, procs) >>)

\* The shape shared by the records with a counted tail: read the whole
\* structure, then compare MofLength with offset + count * element size.
CountedTail(procs, ev, sizeof, offset, count, elem, cb) ==
  IF ~ReaderCanTake(ev.MofLength, 0, sizeof)
    THEN Failed(procs)
    ELSE
      LET expected_length == SizeT(offset + SizeT(count * elem))
      IN  IF ev.MofLength < expected_length
            THEN Failed(procs)
            ELSE Done(procs, << Call(cb, ev.ProcessId, 0, procs) >>)

\* ParseEngine::DispatchSampleDataEvent(event).
DispatchSampleDataEvent(procs, ev) ==
  CountedTail(procs, ev, SizeofTraceSampleData, OffsetofBuckets,
              ev.data.bucket_count, SizeofBucket, "OnSampleData")

\* ParseEngine::DispatchFunctionNameTableEntryEvent(event).
DispatchFunctionNameTableEntryEvent(procs, ev) ==
  CountedTail(procs, ev, SizeofTraceFunctionNameTableEntry, OffsetofName,
              ev.data.name_length, 1, "OnFunctionNameTableEntry")

\* ParseEngine::DispatchStackTrace(event).
DispatchStackTrace(procs, ev) ==
  CountedTail(procs, ev, SizeofTraceStackTrace, OffsetofFrames,
              ev.data.num_frames, SizeofPointer, "OnStackTrace")

\* ParseEngine::DispatchDetailedFunctionCall(event).
DispatchDetailedFunctionCall(procs, ev) ==
  CountedTail(procs, ev, SizeofTraceDetailedFunctionCall,
              OffsetofArgumentData, ev.data.argument_data_size, 1,
              "OnDetailedFunctionCall")

\* ParseEngine::DispatchComment(event).
DispatchComment(procs, ev) ==
  CountedTail(procs, ev, SizeofTraceComment, OffsetofComment,
              ev.data.comment_size, 1, "OnComment")

\* A variant that invokes the handler before it looks at the length.
DispatchProcessHeapCallsFirst(procs, ev) ==
  [success |-> ReaderCanTake(ev.MofLength, 0, SizeofTraceProcessHeap),
   calls |-> << Call("OnProcessHeap", ev.ProcessId, 0, procs) >>,
   processes |-> procs]

\* ParseEngine::DispatchProcessHeap(event).
DispatchProcessHeap(procs, ev) ==
  IF ~ReaderCanTake(ev.MofLength, 0, SizeofTraceProcessHeap)
    THEN Failed(procs)
    ELSE Done(procs, << Call("OnProcessHeap", ev.ProcessId, 0, procs) >>)

\* A variant with the callback on the other side of the registry update.
DispatchModuleEventOtherOrder(procs, fail, ev) ==
  IF ~ReaderCanTake(ev.MofLength, 0, SizeofTraceModuleData)
    THEN Failed(procs)
  ELSE IF ev.data.module_base_addr = 0
    THEN Done(procs, <<>>)
  ELSE
    LET module_info == ModuleTraceDataToModuleInformation(ev.data)
        pid == ev.ProcessId
    IN  CASE ev.Type = "TRACE_PROCESS_ATTACH_EVENT" ->
               LET added == AddModuleInformation(procs, fail, pid, module_info)
               IN  Done(added.processes,
                        << Call("OnProcessAttach", pid, 0, procs) >>)
          [] ev.Type = "TRACE_PROCESS_DETACH_EVENT" ->
               LET removed ==
                     RemoveModuleInformation(procs, fail, pid, module_info)
               IN  Done(removed.processes,
                        << Call("OnProcessDetach", pid, 0,
                                removed.processes) >>)
          [] ev.Type = "TRACE_THREAD_ATTACH_EVENT" ->
               Done(procs, << Call("OnThreadAttach", pid, 0, procs) >>)
          [] ev.Type = "TRACE_THREAD_DETACH_EVENT" ->
               Done(procs, << Call("OnThreadDetach", pid, 0, procs) >>)
          [] OTHER -> Failed(procs)

\* ParseEngine::DispatchModuleEvent(event, type).  The values
\* AddModuleInformation and RemoveModuleInformation return are dropped.
DispatchModuleEvent(procs, fail, ev) ==
  IF ~ReaderCanTake(ev.MofLength, 0, SizeofTraceModuleData)
    THEN Failed(procs)
  ELSE IF ev.data.module_base_addr = 0
    THEN Done(procs, <<>>)
  ELSE
    LET module_info == ModuleTraceDataToModuleInformation(ev.data)
        pid == ev.ProcessId
    IN  CASE ev.Type = "TRACE_PROCESS_ATTACH_EVENT" ->
               LET added == AddModuleInformation(procs, fail, pid, module_info)
               IN  Done(added.processes,
                        << Call("OnProcessAttach", pid, 0, added.processes) >>)
          [] ev.Type = "TRACE_PROCESS_DETACH_EVENT" ->
               LET removed ==
                     RemoveModuleInformation(procs, fail, pid, module_info)
               IN  Done(removed.processes,
                        << Call("OnProcessDetach", pid, 0, procs) >>)
          [] ev.Type = "TRACE_THREAD_ATTACH_EVENT" ->
               Done(procs, << Call("OnThreadAttach", pid, 0, procs) >>)
          [] ev.Type = "TRACE_THREAD_DETACH_EVENT" ->
               Done(procs, << Call("OnThreadDetach", pid, 0, procs) >>)
          [] OTHER -> Failed(procs)

\* The switch of DispatchEvent: the dispatcher of the record's type.  The
\* reserved module event and an unknown type leave success false.
DispatchByType(procs, fail, ev) ==
  CASE ev.Type \in {"TRACE_ENTER_EVENT", "TRACE_EXIT_EVENT"} ->
         DispatchEntryExitEvent(procs, ev)
    [] ev.Type = "TRACE_BATCH_ENTER" -> DispatchBatchEnterEvent(procs, ev)
    [] ev.Type \in {"TRACE_PROCESS_ATTACH_EVENT", "TRACE_PROCESS_DETACH_EVENT",
                    "TRACE_THREAD_ATTACH_EVENT", "TRACE_THREAD_DETACH_EVENT"} ->
         DispatchModuleEvent(procs, fail, ev)
    [] ev.Type = "TRACE_PROCESS_ENDED" -> DispatchProcessEndedEvent(procs, ev)
    [] ev.Type = "TRACE_MODULE_EVENT" -> Failed(procs)
    [] ev.Type = "TRACE_BATCH_INVOCATION" ->
         DispatchBatchInvocationEvent(procs, ev)
    [] ev.Type = "TRACE_THREAD_NAME" -> DispatchThreadNameEvent(procs, ev)
    [] ev.Type = "TRACE_INDEXED_FREQUENCY" ->
         DispatchIndexedFrequencyEvent(procs, ev)
    [] ev.Type = "TRACE_DYNAMIC_SYMBOL" -> DispatchDynamicSymbolEvent(procs, ev)
    [] ev.Type = "TRACE_SAMPLE_DATA" -> DispatchSampleDataEvent(procs, ev)
    [] ev.Type = "TRACE_FUNCTION_NAME_TABLE_ENTRY" ->
         DispatchFunctionNameTableEntryEvent(procs, ev)
    [] ev.Type = "TRACE_STACK_TRACE" -> DispatchStackTrace(procs, ev)
    [] ev.Type = "TRACE_DETAILED_FUNCTION_CALL" ->
         DispatchDetailedFunctionCall(procs, ev)
    [] ev.Type = "TRACE_COMMENT" -> DispatchComment(procs, ev)
    [] ev.Type = "TRACE_PROCESS_HEAP" -> DispatchProcessHeap(procs, ev)
    [] OTHER -> Failed(procs)

\* Variants: one that returns the dispatcher's success, one that skips the
\* test of the class GUID.
DispatchEventReturnsSuccess(procs, err, fail, ev) ==
  IF ev.Guid # "kCallTraceEventClass"
    THEN [processes |-> procs, error_occurred_ |-> err, ret |-> FALSE,
          calls |-> <<>>]
    ELSE
      LET d == DispatchByType(procs, fail, ev)
      IN  [processes |-> d.processes,
           error_occurred_ |-> IF ~d.success THEN TRUE ELSE err,
           ret |-> d.success, calls |-> d.calls]

DispatchEventAnyClass(procs, err, fail, ev) ==
  LET d == DispatchByType(procs, fail, ev)
  IN  [processes |-> d.processes,
       error_occurred_ |-> IF ~d.success THEN TRUE ELSE err,
       ret |-> ev.Guid = "kCallTraceEventClass", calls |-> d.calls]

\* A variant that lets a record of an unknown type pass without a fault.
DispatchEventUnknownIgnored(procs, err, fail, ev) ==
  IF ev.Guid # "kCallTraceEventClass"
    THEN [processes |-> procs, error_occurred_ |-> err, ret |-> FALSE,
          calls |-> <<>>]
    ELSE
      LET d == DispatchByType(procs, fail, ev)
      IN  [processes |-> d.processes,
           error_occurred_ |->
             IF ~d.success /\ ev.Type # "UNKNOWN_TYPE" THEN TRUE ELSE err,
           ret |-> TRUE, calls |-> d.calls]

\* ParseEngine::DispatchEvent(event): false for a record of another class;
\* otherwise the fault is latched when the dispatcher failed, and true.
DispatchEvent(procs, err, fail, ev) ==
  IF ev.Guid # "kCallTraceEventClass"
    THEN [processes |-> procs, error_occurred_ |-> err, ret |-> FALSE,
          calls |-> <<>>]
    ELSE
      LET d == DispatchByType(procs, fail, ev)
      IN  [processes |-> d.processes,
           error_occurred_ |-> IF ~d.success THEN TRUE ELSE err,
           ret |-> TRUE, calls |-> d.calls]


----------------------------------------------------------------------------
(* The records fed to the engine.                                          *)

Event(guid, type, pid, len, data) ==
  [Guid |-> guid, Type |-> type, ProcessId |-> pid, MofLength |-> len,
   data |-> data]

\* TraceModuleData payloads; module_base_addr 0 is the null pointer.
TraceModuleData ==
  { d \in { [module_base_addr |-> b, module_base_size |-> s,
             module_name |-> i.path, module_checksum |-> i.module_checksum,
             module_time_date_stamp |-> i.module_time_date_stamp] :
               b \in Bases, s \in Sizes, i \in Images } :
      d.module_base_addr + d.module_base_size <= MaxAddr }

NoData == [none |-> TRUE]

ModuleEventTypes ==
  {"TRACE_PROCESS_ATTACH_EVENT", "TRACE_PROCESS_DETACH_EVENT",
   "TRACE_THREAD_ATTACH_EVENT", "TRACE_THREAD_DETACH_EVENT"}

\* Process attach and detach records with every payload; thread attach and
\* detach records, which never reach the registry, with one null and one
\* non-null module; and records one byte short of a TraceModuleData.
ModuleEvents ==
  { Event("kCallTraceEventClass", t, p, SizeofTraceModuleData, d) :
      t \in {"TRACE_PROCESS_ATTACH_EVENT", "TRACE_PROCESS_DETACH_EVENT"},
      p \in Pids, d \in TraceModuleData }
  \cup
  { Event("kCallTraceEventClass", t, p, SizeofTraceModuleData, d) :
      t \in {"TRACE_THREAD_ATTACH_EVENT", "TRACE_THREAD_DETACH_EVENT"},
      p \in Pids,
      d \in { x \in TraceModuleData :
                /\ x.module_base_addr \in {0, 1} /\ x.module_base_size = 1
                /\ x.module_name = <<"C:", "a.dll">>
                /\ x.module_checksum = 1 /\ x.module_time_date_stamp = 1 } }
  \cup
  { Event("kCallTraceEventClass", t, p, SizeofTraceModuleData - 1,
          CHOOSE d \in TraceModuleData : d.module_base_addr # 0) :
      t \in ModuleEventTypes, p \in Pids }

ProcessEndedEvents ==
  { Event("kCallTraceEventClass", "TRACE_PROCESS_ENDED", p, 0, NoData) :
      p \in Pids }

\* Records of the recognized class with the reserved type and with a type
\* code outside the enumeration.
OddTypeEvents ==
  { Event("kCallTraceEventClass", t, p, 0, NoData) :
      t \in {"TRACE_MODULE_EVENT", "UNKNOWN_TYPE"}, p \in Pids }

\* Records of another event class, of types the engine would know.
ForeignEvents ==
  { Event("SomeOtherClass", t, p, SizeofTraceModuleData, d) :
      t \in {"TRACE_PROCESS_ATTACH_EVENT", "TRACE_PROCESS_DETACH_EVENT"},
      p \in Pids,
      d \in { x \in TraceModuleData :
                /\ x.module_base_addr = 1 /\ x.module_base_size = 2
                /\ x.module_name = <<"C:", "b.dll">> } }
  \cup
  { Event("SomeOtherClass", t, p, 0, NoData) :
      t \in {"TRACE_PROCESS_ENDED", "TRACE_MODULE_EVENT", "UNKNOWN_TYPE"},
      p \in Pids }


\* The most call records a batch payload carries.
MaxCalls == 2

\* A count whose product with an element size of 4 or 8 wraps to 0.
WrapCount == 2 ^ (SizeTBits - 2)

RECURSIVE SeqsUpTo(_, _)
SeqsUpTo(S, n) ==
  IF n = 0 THEN { <<>> }
  ELSE LET shorter == SeqsUpTo(S, n - 1)
       IN  shorter \cup { Append(q, x) : q \in { r \in shorter : Len(r) = n - 1 },
                                         x \in S }

EntryExitEvents ==
  { Event("kCallTraceEventClass", t, p, len, NoData) :
      t \in {"TRACE_ENTER_EVENT", "TRACE_EXIT_EVENT"}, p \in Pids,
      len \in {SizeofTraceEnterExitEventData - 1, SizeofTraceEnterExitEventData} }

\* A batch: the header's num_calls and the call records really carried
\* (function 0 is null); the payload ends with the last carried record.
\* beyond is the word a read past the payload's end finds, null or not; it
\* is read only for a wrapping num_calls.
BatchEnterEvents ==
  { Event("kCallTraceEventClass", "TRACE_BATCH_ENTER", 1,
          OffsetofBatchCalls + SizeofCall * Len(calls),
          [num_calls |-> n, calls |-> calls, beyond |-> 1]) :
      n \in (0..(MaxCalls + 1)) \cup {WrapCount},
      calls \in SeqsUpTo({0, 1}, MaxCalls) }
  \cup
  { Event("kCallTraceEventClass", "TRACE_BATCH_ENTER", 1,
          OffsetofBatchCalls + SizeofCall * Len(calls),
          [num_calls |-> WrapCount, calls |-> calls, beyond |-> 0]) :
      calls \in SeqsUpTo({0, 1}, MaxCalls) }
  \cup
  { Event("kCallTraceEventClass", "TRACE_BATCH_ENTER", 1,
          OffsetofBatchCalls - 1,
          [num_calls |-> 0, calls |-> <<>>, beyond |-> 1]) }

BatchInvocationEvents ==
  { Event("kCallTraceEventClass", "TRACE_BATCH_INVOCATION", 1, len, NoData) :
      len \in {0, SizeofInvocationInfo - 1, SizeofInvocationInfo,
               SizeofInvocationInfo + 1, 2 * SizeofInvocationInfo} }

StringEvents ==
  { Event("kCallTraceEventClass", t, 1, len, [terminated |-> z]) :
      t \in {"TRACE_THREAD_NAME", "TRACE_DYNAMIC_SYMBOL"},
      len \in {0, OffsetofSymbolName - 1, OffsetofSymbolName + 3},
      z \in BOOLEAN }

IndexedFrequencyEvents ==
  { Event("kCallTraceEventClass", "TRACE_INDEXED_FREQUENCY", 1,
          SizeofTraceIndexedFrequencyData + extra,
          [frequency_size |-> fs, num_entries |-> ne]) :
      extra \in {-1, 0, 2, 3}, fs \in {0, 1, 4},
      ne \in {0, 1, WrapCount} }

\* The records with a counted tail, for every kind: lengths around the
\* structure size and around offset + count * element size.
CountedEvents(type, sizeof, offset, elem, field) ==
  { Event("kCallTraceEventClass", type, 1, len,
          [f \in {field} |-> count]) :
      count \in {0, 2, WrapCount},
      len \in {offset, sizeof - 1, sizeof,
               offset + 2 * elem - 1, offset + 2 * elem} }

PayloadEvents ==
  EntryExitEvents \cup BatchEnterEvents \cup BatchInvocationEvents
  \cup StringEvents \cup IndexedFrequencyEvents
  \cup CountedEvents("TRACE_SAMPLE_DATA", SizeofTraceSampleData,
                     OffsetofBuckets, SizeofBucket, "bucket_count")
  \cup CountedEvents("TRACE_FUNCTION_NAME_TABLE_ENTRY",
                     SizeofTraceFunctionNameTableEntry, OffsetofName, 1,
                     "name_length")
  \cup CountedEvents("TRACE_STACK_TRACE", SizeofTraceStackTrace,
                     OffsetofFrames, SizeofPointer, "num_frames")
  \cup CountedEvents("TRACE_DETAILED_FUNCTION_CALL",
                     SizeofTraceDetailedFunctionCall, OffsetofArgumentData, 1,
                     "argument_data_size")
  \cup CountedEvents("TRACE_COMMENT", SizeofTraceComment, OffsetofComment, 1,
                     "comment_size")
  \cup { Event("kCallTraceEventClass", "TRACE_PROCESS_HEAP", 1, len, NoData) :
           len \in {SizeofTraceProcessHeap - 1, SizeofTraceProcessHeap} }

\* The records that bear on the registry and the fault latch alone.
RegistryEvents ==
  ModuleEvents \cup ProcessEndedEvents \cup OddTypeEvents \cup ForeignEvents

Events == RegistryEvents \cup PayloadEvents

----------------------------------------------------------------------------
(* The engine as a state machine.                                          *)

\* The number of entries stored over all processes.
RECURSIVE TotalModules(_, _)
TotalModules(procs, pids) ==
  IF pids = {} THEN 0
  ELSE LET p == CHOOSE x \in pids : TRUE
       IN  Cardinality(procs[p]) + TotalModules(procs, pids \ {p})

WithinBounds(procs) == TotalModules(procs, DOMAIN procs) <= MaxModules

\* ParseEngine::ParseEngine(name, fail_on_module_conflict).
Init ==
  /\ processes = << >>
  /\ error_occurred_ = FALSE
  /\ fail_on_module_conflict_ \in BOOLEAN

AddModule(pid, m) ==
  LET r == AddModuleInformation(processes, fail_on_module_conflict_, pid, m)
  IN  /\ WithinBounds(r.processes)
      /\ processes' = r.processes
      /\ UNCHANGED <<error_occurred_, fail_on_module_conflict_>>

RemoveModule(pid, m) ==
  LET r == RemoveModuleInformation(processes, fail_on_module_conflict_, pid, m)
  IN  /\ processes' = r.processes
      /\ UNCHANGED <<error_occurred_, fail_on_module_conflict_>>

RemoveProcess(pid) ==
  LET r == RemoveProcessInformation(processes, pid)
  IN  /\ processes' = r.processes
      /\ UNCHANGED <<error_occurred_, fail_on_module_conflict_>>

\* ParseEngine::set_error_occurred(value).
SetErrorOccurred(value) ==
  /\ error_occurred_' = value
  /\ UNCHANGED <<processes, fail_on_module_conflict_>>

Dispatch(ev) ==
  LET r == DispatchEvent(processes, error_occurred_,
                         fail_on_module_conflict_, ev)
  IN  /\ WithinBounds(r.processes)
      /\ processes' = r.processes
      /\ error_occurred_' = r.error_occurred_
      /\ UNCHANGED fail_on_module_conflict_

Next ==
  \/ \E pid \in Pids, m \in ModuleInformation : AddModule(pid, m)
  \/ \E pid \in Pids, m \in ModuleInformation : RemoveModule(pid, m)
  \/ \E pid \in Pids : RemoveProcess(pid)
  \/ \E value \in BOOLEAN : SetErrorOccurred(value)
  \/ \E ev \in Events : Dispatch(ev)

Spec == Init /\ [][Next]_vars


----------------------------------------------------------------------------
(* Properties.  Each is stated over a reachable state of the engine and    *)
(* every input of the operation it is about.                               *)

\* A module the tracker does not skip.
ValidModule(m) == m.module_size > 0 /\ m.path # <<>>

\* The well-framed ProcessAttach / ProcessDetach record carrying module m.
ModuleEventOf(type, pid, m) ==
  Event("kCallTraceEventClass", type, pid, SizeofTraceModuleData,
        [module_base_addr |-> m.base_address,
         module_base_size |-> m.module_size, module_name |-> m.path,
         module_checksum |-> m.module_checksum,
         module_time_date_stamp |-> m.module_time_date_stamp])

ProcessEndedOf(pid) ==
  Event("kCallTraceEventClass", "TRACE_PROCESS_ENDED", pid, 0, NoData)

\* The stored entries of pid whose range overlaps module m's range.
Overlapping(procs, pid, m) ==
  { e \in SpaceOf(procs, pid) :
      Intersects(EntryRange(e), Range(m.base_address, m.module_size)) }

\* The first stored entry module m collides with.
FirstCollision(procs, pid, m) ==
  FindFirstIntersection(SpaceOf(procs, pid),
                        Range(m.base_address, m.module_size))

\* Module m collides with a live entry that is not the same module.
UnreconciledConflict(procs, pid, m) ==
  /\ ValidModule(m)
  /\ FirstCollision(procs, pid, m) # NoEntry
  /\ ~FirstCollision(procs, pid, m).is_dirty
  /\ ~SameModule(m, FirstCollision(procs, pid, m))

\* C1: a ProcessAttach whose module collides with a stored live entry that
\* is not the same module latches the fault iff fail_on_module_conflict_.
C1_ConflictLatchesIffStrict ==
  \A pid \in Pids, m \in ModuleInformation :
    (~error_occurred_ /\ UnreconciledConflict(processes, pid, m))
      => DispatchEvent(processes, error_occurred_, fail_on_module_conflict_,
                       ModuleEventOf("TRACE_PROCESS_ATTACH_EVENT", pid, m)
                      ).error_occurred_ = fail_on_module_conflict_

\* C2: DispatchEvent returns true for every record of the call-trace class,
\* of every kind, validated or not, fault latched or not, and false exactly
\* for the records of another class.
C2_ReturnsTrueIffKnownClass ==
  \A ev \in Events :
    DispatchEvent(processes, error_occurred_, fail_on_module_conflict_, ev).ret
      = (ev.Guid = "kCallTraceEventClass")

\* C2's case: the fault is latched, a record that fails validation is still
\* answered true, and a record of another class false.
C2_Witness ==
  /\ error_occurred_
  /\ \E ev \in Events :
       /\ ev.Guid = "kCallTraceEventClass"
       /\ ~DispatchByType(processes, fail_on_module_conflict_, ev).success
       /\ DispatchEvent(processes, error_occurred_,
                        fail_on_module_conflict_, ev).ret
  /\ \E ev \in Events :
       /\ ev.Guid # "kCallTraceEventClass"
       /\ ~DispatchEvent(processes, error_occurred_,
                         fail_on_module_conflict_, ev).ret

\* C3: a record of another class changes nothing: the fault latch keeps its
\* value, no callback is invoked, the registry is the same.
C3_ForeignHasNoEffect ==
  \A ev \in Events :
    ev.Guid # "kCallTraceEventClass" =>
      LET r == DispatchEvent(processes, error_occurred_,
                             fail_on_module_conflict_, ev)
      IN  /\ r.error_occurred_ = error_occurred_
          /\ r.calls = <<>>
          /\ r.processes = processes

\* C3's case: the fault is not latched and a foreign record is at hand that,
\* were it of the call-trace class, would change the registry or latch.
C3_Witness ==
  /\ ~error_occurred_
  /\ processes # << >>
  /\ \E ev \in ForeignEvents :
       LET r == DispatchEvent(processes, error_occurred_,
                              fail_on_module_conflict_, ev)
           d == DispatchByType(processes, fail_on_module_conflict_, ev)
       IN  /\ ~r.ret /\ ~r.error_occurred_ /\ r.processes = processes
           /\ d.processes # processes
  /\ \E ev \in ForeignEvents :
       /\ ~DispatchByType(processes, fail_on_module_conflict_, ev).success
       /\ ~DispatchEvent(processes, error_occurred_,
                         fail_on_module_conflict_, ev).error_occurred_

\* C4 (IM1): in every ModuleSpace no two entries that are not dirty have
\* overlapping ranges.
C4_LiveRangesDisjoint ==
  \A pid \in DOMAIN processes :
    \A e, f \in processes[pid] :
      (e # f /\ ~e.is_dirty /\ ~f.is_dirty)
        => ~Intersects(EntryRange(e), EntryRange(f))

\* C4's case: a live entry stands next to a dirty one, and a module that
\* overlaps both is about to be added: the add runs into the live one after
\* dropping the dirty one.
C4_Witness ==
  \E pid \in DOMAIN processes, m \in ModuleInformation :
    LET r == AddModuleInformation(processes, fail_on_module_conflict_, pid, m)
    IN  /\ \E e, f \in Overlapping(processes, pid, m) :
             e.is_dirty /\ ~f.is_dirty
        /\ r.exit = "conflict"
        /\ r.removed > 0

\* C5: for a valid module that is not the same module as the first entry it
\* collides with, AddModule installs it as a live entry iff every stored
\* entry overlapping its range is dirty; once installed, no other entry
\* overlaps it and the call (and the ProcessAttach) reports no fault.
C5_InstalledIffOnlyDirtyInTheWay ==
  \A pid \in Pids, m \in ModuleInformation :
    (/\ ValidModule(m)
     /\ FirstCollision(processes, pid, m) # NoEntry
     /\ ~SameModule(m, FirstCollision(processes, pid, m)))
      =>
      LET r == AddModuleInformation(processes, fail_on_module_conflict_,
                                    pid, m)
          d == DispatchEvent(processes, FALSE, fail_on_module_conflict_,
                             ModuleEventOf("TRACE_PROCESS_ATTACH_EVENT", pid, m))
          installed == AnnotatedModuleInformation(m) \in SpaceOf(r.processes, pid)
      IN  /\ installed <=>
               (\A e \in Overlapping(processes, pid, m) : e.is_dirty)
          /\ installed =>
               /\ Overlapping(r.processes, pid, m)
                    = {AnnotatedModuleInformation(m)}
               /\ r.ret
               /\ ~d.error_occurred_
               /\ d.processes = r.processes

\* C5's case: two dirty entries lie in the way of a module with another
\* checksum, and adding it drops both and installs it.
C5_Witness ==
  \E pid \in DOMAIN processes, m \in ModuleInformation :
    LET r == AddModuleInformation(processes, fail_on_module_conflict_, pid, m)
    IN  /\ Cardinality(Overlapping(processes, pid, m)) = 2
        /\ \A e \in Overlapping(processes, pid, m) :
             e.is_dirty /\ e.module_checksum # m.module_checksum
        /\ r.exit = "replaced"
        /\ r.removed = 2
        /\ SpaceOf(r.processes, pid) = {AnnotatedModuleInformation(m)}


\* C6 (RT3): after a ProcessEnded for a pid and a ProcessAttach for the same
\* pid with the module information of an entry stored before, the dirty
\* entry is gone and the pid's ModuleSpace holds a live entry for the module.
C6_ReattachAfterEndIsLive ==
  \A pid \in DOMAIN processes :
    \A e \in processes[pid] :
      LET ended == DispatchEvent(processes, FALSE, fail_on_module_conflict_,
                                 ProcessEndedOf(pid))
          again == DispatchEvent(ended.processes, ended.error_occurred_,
                                 fail_on_module_conflict_,
                                 ModuleEventOf("TRACE_PROCESS_ATTACH_EVENT",
                                               pid, InfoOf(e)))
      IN  /\ [e EXCEPT !.is_dirty = TRUE] \notin SpaceOf(again.processes, pid)
          /\ AnnotatedModuleInformation(InfoOf(e))
               \in SpaceOf(again.processes, pid)

\* What IM3 promises of RemoveModule(pid, m) then AddModule(pid, m2), for a
\* stored entry e of module m: Lookup(pid, m2.base) is m2, and the entry of
\* m, by now dirty, is gone.
IM3Outcome(pid, e, m2) ==
  LET removed == RemoveModuleInformation(processes, fail_on_module_conflict_,
                                         pid, InfoOf(e))
      added == AddModuleInformation(removed.processes,
                                    fail_on_module_conflict_, pid, m2)
      found == GetModuleInformation(added.processes, pid, m2.base_address)
  IN  /\ found # NoEntry
      /\ InfoOf(found) = m2
      /\ [e EXCEPT !.is_dirty = TRUE] \notin SpaceOf(added.processes, pid)

C8_LookupFindsAddedModule ==
  \A pid \in Pids, m \in ModuleInformation :
    (ValidModule(m) /\ Overlapping(processes, pid, m) = {})
      =>
      LET after == AddModuleInformation(processes, fail_on_module_conflict_,
                                        pid, m).processes
          at(a) == GetModuleInformation(after, pid, a)
      IN  /\ \A a \in m.base_address..(m.base_address + m.module_size - 1) :
               at(a) = AnnotatedModuleInformation(m)
          /\ at(m.base_address + m.module_size) # AnnotatedModuleInformation(m)

\* C8's case: a two-byte module is added right below a stored module: the
\* lookup one past its end finds the neighbour.
C8_Witness ==
  \E pid \in DOMAIN processes, m \in ModuleInformation :
    LET r == AddModuleInformation(processes, fail_on_module_conflict_, pid, m)
        next == GetModuleInformation(r.processes, pid,
                                     m.base_address + m.module_size)
    IN  /\ ValidModule(m)
        /\ Overlapping(processes, pid, m) = {}
        /\ r.exit = "inserted"
        /\ GetModuleInformation(r.processes, pid, m.base_address)
             = AnnotatedModuleInformation(m)
        /\ next # NoEntry
        /\ next \in processes[pid]

C10_AddModuleTwiceIsOnce ==
  \A pid \in Pids, m \in ModuleInformation :
    LET once == AddModuleInformation(processes, fail_on_module_conflict_,
                                     pid, m)
        twice == AddModuleInformation(once.processes,
                                      fail_on_module_conflict_, pid, m)
    IN  twice.processes = once.processes

\* C10's case: the first call drops a dirty entry and then ends in a
\* conflict with a live one; the second call changes nothing more.
C10_Witness ==
  \E pid \in DOMAIN processes, m \in ModuleInformation :
    LET once == AddModuleInformation(processes, fail_on_module_conflict_,
                                     pid, m)
        twice == AddModuleInformation(once.processes,
                                      fail_on_module_conflict_, pid, m)
    IN  /\ once.exit = "conflict"
        /\ once.removed = 1
        /\ once.processes # processes
        /\ twice.exit = "conflict"
        /\ twice.processes = once.processes

\* C11 (RT2): RemoveModule(pid, m) for a range that intersects no stored
\* entry returns success and leaves the registry as it was, the set of pids
\* included: a ProcessEnded for a pid unknown before is still unknown after.
C11_RemoveAbsentChangesNothing ==
  \A pid \in Pids, m \in ModuleInformation :
    Overlapping(processes, pid, m) = {} =>
      LET r == RemoveModuleInformation(processes, fail_on_module_conflict_,
                                       pid, m)
          ended == DispatchEvent(r.processes, FALSE, fail_on_module_conflict_,
                                 ProcessEndedOf(pid))
      IN  /\ r.ret
          /\ r.processes = processes
          /\ DOMAIN r.processes = DOMAIN processes
          /\ ~Known(processes, pid) => ended.error_occurred_

\* The test of C12 in the claim's own words: the stored entry e has the
\* base address, size, checksum and time stamp of m and its path's basename.
PathAlias(m, e) ==
  /\ e.base_address = m.base_address
  /\ e.module_size = m.module_size
  /\ e.module_checksum = m.module_checksum
  /\ e.module_time_date_stamp = m.module_time_date_stamp
  /\ e.path[Len(e.path)] = m.path[Len(m.path)]

\* C12: AddModule(pid, m) colliding with a stored entry of the same base
\* address, size, checksum, time stamp and path basename returns success
\* under both conflict policies and leaves the ModuleSpace as it was, path
\* and dirty flag of the stored entry included; the ProcessAttach carrying m
\* does not latch the fault.
C12_PathAliasIsNoOp ==
  \A pid \in DOMAIN processes, m \in ModuleInformation :
    \A e \in processes[pid] :
      (m.path # <<>> /\ PathAlias(m, e)) =>
        \A fail \in BOOLEAN :
          LET r == AddModuleInformation(processes, fail, pid, m)
              d == DispatchEvent(processes, FALSE, fail,
                                 ModuleEventOf("TRACE_PROCESS_ATTACH_EVENT",
                                               pid, m))
          IN  /\ r.ret
              /\ r.processes = processes
              /\ e \in SpaceOf(r.processes, pid)
              /\ ~d.error_occurred_
              /\ d.processes = processes

\* C12's case: a dirty entry stored under a drive path meets the same image
\* under a device path, and the entry stays, dirty, with its path.
C12_Witness ==
  \E pid \in DOMAIN processes, m \in ModuleInformation :
    \E e \in processes[pid] :
      LET r == AddModuleInformation(processes, fail_on_module_conflict_,
                                    pid, m)
      IN  /\ fail_on_module_conflict_
          /\ e.is_dirty
          /\ m.path # <<>> /\ PathAlias(m, e)
          /\ m.path # e.path
          /\ r.exit = "same"
          /\ r.ret
          /\ e \in SpaceOf(r.processes, pid)

\* Lookup(pid, a) returns the module of entry e for every address of e's
\* range.
LookupReturns(procs, pid, e) ==
  \A a \in e.base_address..(e.base_address + e.module_size - 1) :
    LET found == GetModuleInformation(procs, pid, a)
    IN  found # NoEntry /\ InfoOf(found) = InfoOf(e)

\* C13: Lookup ignores the dirty flag: after RemoveModule(pid, m) for a
\* stored module m, and after RemoveProcess(pid), Lookup(pid, a) still
\* returns m for every address a of m's range.
C13_LookupReturnsDirtyEntries ==
  \A pid \in DOMAIN processes :
    \A e \in processes[pid] :
      /\ LookupReturns(
           RemoveModuleInformation(processes, fail_on_module_conflict_,
                                   pid, InfoOf(e)).processes, pid, e)
      /\ LookupReturns(RemoveProcessInformation(processes, pid).processes,
                       pid, e)

\* C13's case: a live two-byte module is removed; it is stored dirty and
\* the lookup of its last address returns it.
C13_Witness ==
  \E pid \in DOMAIN processes :
    \E e \in processes[pid] :
      LET r == RemoveModuleInformation(processes, fail_on_module_conflict_,
                                       pid, InfoOf(e))
      IN  /\ ~e.is_dirty
          /\ e.module_size = 2
          /\ r.exit = "dirtied"
          /\ [e EXCEPT !.is_dirty = TRUE] \in SpaceOf(r.processes, pid)
          /\ GetModuleInformation(r.processes, pid, e.base_address + 1)
               = [e EXCEPT !.is_dirty = TRUE]

\* C14: RemoveProcess(pid) for a known pid returns success, leaves every
\* entry of the pid dirty and removes nothing: the pid stays known, and the
\* stored ranges and their module data are the same.
C14_RemoveProcessMarksAllKeepsAll ==
  \A pid \in DOMAIN processes :
    LET r == RemoveProcessInformation(processes, pid)
    IN  /\ r.ret
        /\ DOMAIN r.processes = DOMAIN processes
        /\ \A e \in r.processes[pid] : e.is_dirty
        /\ { InfoOf(e) : e \in r.processes[pid] }
             = { InfoOf(e) : e \in processes[pid] }
        /\ Cardinality(r.processes[pid]) = Cardinality(processes[pid])
        /\ \A q \in (DOMAIN processes) \ {pid} : r.processes[q] = processes[q]

\* C14's case: the process holds a live entry and a dirty one.
C14_Witness ==
  \E pid \in DOMAIN processes :
    LET r == RemoveProcessInformation(processes, pid)
    IN  /\ \E e, f \in processes[pid] : ~e.is_dirty /\ f.is_dirty
        /\ r.ret
        /\ r.processes # processes
        /\ Cardinality(r.processes[pid]) = 2

\* C15: a ProcessEnded record for a pid that is not in the registry latches
\* the fault; one for a pid that is in the registry does not.
C15_ProcessEndedLatchesIffUnknown ==
  \A pid \in Pids :
    DispatchEvent(processes, FALSE, fail_on_module_conflict_,
                  ProcessEndedOf(pid)).error_occurred_
      = ~Known(processes, pid)

\* C15's case: one pid is in the registry and another is not, and no fault
\* is latched.
C15_Witness ==
  /\ ~error_occurred_
  /\ \E p, q \in Pids :
       /\ Known(processes, p) /\ processes[p] # {}
       /\ ~Known(processes, q)
       /\ ~DispatchEvent(processes, error_occurred_, fail_on_module_conflict_,
                         ProcessEndedOf(p)).error_occurred_
       /\ DispatchEvent(processes, error_occurred_, fail_on_module_conflict_,
                        ProcessEndedOf(q)).error_occurred_

\* C16: OnProcessAttach is invoked with the module already installed in the
\* pid's ModuleSpace; OnProcessDetach is invoked with the entry not yet
\* marked dirty.
C16_AttachBeforeCallbackDetachAfter ==
  /\ \A pid \in Pids, m \in ModuleInformation :
       (/\ ValidModule(m)
        /\ \A e \in Overlapping(processes, pid, m) :
             e.is_dirty /\ ~SameModule(m, e))
         =>
         LET d == DispatchEvent(processes, FALSE, fail_on_module_conflict_,
                                ModuleEventOf("TRACE_PROCESS_ATTACH_EVENT",
                                              pid, m))
         IN  /\ Len(d.calls) = 1
             /\ d.calls[1].cb = "OnProcessAttach"
             /\ AnnotatedModuleInformation(m) \in SpaceOf(d.calls[1].procs, pid)
             /\ d.calls[1].procs
                  = AddModuleInformation(processes, fail_on_module_conflict_,
                                         pid, m).processes
  /\ \A pid \in DOMAIN processes :
       \A e \in processes[pid] :
         ~e.is_dirty =>
           LET d == DispatchEvent(processes, FALSE, fail_on_module_conflict_,
                                  ModuleEventOf("TRACE_PROCESS_DETACH_EVENT",
                                                pid, InfoOf(e)))
           IN  /\ Len(d.calls) = 1
               /\ d.calls[1].cb = "OnProcessDetach"
               /\ e \in SpaceOf(d.calls[1].procs, pid)
               /\ [e EXCEPT !.is_dirty = TRUE] \in SpaceOf(d.processes, pid)

\* C16's case: a live entry that a detach record is about to mark, and a
\* module that an attach record is about to install over a dirty entry.
C16_Witness ==
  \E pid \in DOMAIN processes, m \in ModuleInformation :
    \E e, f \in processes[pid] :
      LET a == DispatchEvent(processes, FALSE, fail_on_module_conflict_,
                             ModuleEventOf("TRACE_PROCESS_ATTACH_EVENT",
                                           pid, m))
          d == DispatchEvent(processes, FALSE, fail_on_module_conflict_,
                             ModuleEventOf("TRACE_PROCESS_DETACH_EVENT",
                                           pid, InfoOf(e)))
      IN  /\ ~e.is_dirty /\ f.is_dirty
          /\ ValidModule(m) /\ Overlapping(processes, pid, m) = {f}
          /\ ~SameModule(m, f)
          /\ AnnotatedModuleInformation(m) \in SpaceOf(a.calls[1].procs, pid)
          /\ f \notin SpaceOf(a.calls[1].procs, pid)
          /\ e \in SpaceOf(d.calls[1].procs, pid)
          /\ e \notin SpaceOf(d.processes, pid)

\* The kinds of record with a variable-length tail.
TailKinds ==
  {"TRACE_STACK_TRACE", "TRACE_DETAILED_FUNCTION_CALL", "TRACE_COMMENT",
   "TRACE_FUNCTION_NAME_TABLE_ENTRY", "TRACE_SAMPLE_DATA",
   "TRACE_INDEXED_FREQUENCY", "TRACE_BATCH_ENTER"}

\* The offset of the tail in a record of a kind with a tail; for the
\* frequency data, the tail is the last byte of the structure.
TailOffset(ev) ==
  CASE ev.Type = "TRACE_STACK_TRACE" -> OffsetofFrames
    [] ev.Type = "TRACE_DETAILED_FUNCTION_CALL" -> OffsetofArgumentData
    [] ev.Type = "TRACE_COMMENT" -> OffsetofComment
    [] ev.Type = "TRACE_FUNCTION_NAME_TABLE_ENTRY" -> OffsetofName
    [] ev.Type = "TRACE_SAMPLE_DATA" -> OffsetofBuckets
    [] ev.Type = "TRACE_INDEXED_FREQUENCY" ->
         SizeofTraceIndexedFrequencyData - 1
    [] ev.Type = "TRACE_BATCH_ENTER" -> OffsetofBatchCalls

\* The size of the tail the header announces, as a number (no word width).
TailSize(ev) ==
  CASE ev.Type = "TRACE_STACK_TRACE" -> ev.data.num_frames * SizeofPointer
    [] ev.Type = "TRACE_DETAILED_FUNCTION_CALL" -> ev.data.argument_data_size
    [] ev.Type = "TRACE_COMMENT" -> ev.data.comment_size
    [] ev.Type = "TRACE_FUNCTION_NAME_TABLE_ENTRY" -> ev.data.name_length
    [] ev.Type = "TRACE_SAMPLE_DATA" -> ev.data.bucket_count * SizeofBucket
    [] ev.Type = "TRACE_INDEXED_FREQUENCY" ->
         ev.data.frequency_size * ev.data.num_entries
    [] ev.Type = "TRACE_BATCH_ENTER" -> ev.data.num_calls * SizeofCall

\* expected_length = offsetof(T, tail_field) + tail_size.
ExpectedLength(ev) == TailOffset(ev) + TailSize(ev)

\* The fixed prefix of a record: the bytes before a tail, the whole
\* structure for the kinds without one (none for a string, an invocation
\* batch or a record without payload).
FixedPrefix(ev) ==
  CASE ev.Type \in TailKinds -> TailOffset(ev)
    [] ev.Type \in {"TRACE_ENTER_EVENT", "TRACE_EXIT_EVENT"} ->
         SizeofTraceEnterExitEventData
    [] ev.Type \in ModuleEventTypes -> SizeofTraceModuleData
    [] ev.Type = "TRACE_DYNAMIC_SYMBOL" -> OffsetofSymbolName
    [] ev.Type = "TRACE_PROCESS_HEAP" -> SizeofTraceProcessHeap
    [] OTHER -> 0

\* The payload is shorter than the fixed prefix or than the expected length.
ShortRecord(ev) ==
  \/ ev.MofLength < FixedPrefix(ev)
  \/ ev.Type \in TailKinds /\ ev.MofLength < ExpectedLength(ev)

\* C17 (B1, accepting half): a record of a kind with a tail whose payload
\* length equals offsetof(T, tail_field) + tail_size is accepted, a tail
\* count of 0 included: its callback is invoked and no fault is latched.
C17_ExactLengthIsAccepted ==
  \A ev \in Events :
    (/\ ev.Guid = "kCallTraceEventClass"
     /\ ev.Type \in TailKinds
     /\ ev.MofLength = ExpectedLength(ev))
      =>
      LET d == DispatchEvent(processes, FALSE, fail_on_module_conflict_, ev)
      IN  Len(d.calls) = 1 /\ ~d.error_occurred_

\* C18: a record of a recognized kind whose payload is shorter than the
\* fixed prefix, or shorter than the expected length its header implies,
\* latches the fault, invokes no callback and leaves the registry alone.
C18_ShortRecordsFail ==
  \A ev \in Events :
    (ev.Guid = "kCallTraceEventClass" /\ ShortRecord(ev))
      =>
      LET d == DispatchEvent(processes, FALSE, fail_on_module_conflict_, ev)
      IN  /\ d.error_occurred_
          /\ d.calls = <<>>
          /\ d.processes = processes

\* A BatchEnter record whose payload carries exactly the num_calls call
\* records its header announces.
WellFramedBatch(ev) ==
  /\ ev.Guid = "kCallTraceEventClass"
  /\ ev.Type = "TRACE_BATCH_ENTER"
  /\ ev.data.num_calls = Len(ev.data.calls)
  /\ ev.MofLength = OffsetofBatchCalls + SizeofCall * ev.data.num_calls

C20_InvocationBatchWholeRecords ==
  \A ev \in Events :
    (ev.Guid = "kCallTraceEventClass" /\ ev.Type = "TRACE_BATCH_INVOCATION")
      =>
      LET d == DispatchEvent(processes, FALSE, fail_on_module_conflict_, ev)
      IN  IF \E k \in 0..ev.MofLength : k * SizeofInvocationInfo = ev.MofLength
            THEN /\ Len(d.calls) = 1
                 /\ d.calls[1].cb = "OnInvocationBatch"
                 /\ d.calls[1].n * SizeofInvocationInfo = ev.MofLength
                 /\ ~d.error_occurred_
            ELSE d.calls = <<>> /\ d.error_occurred_

\* C20's case: no fault is latched; a payload of two invocations is handed
\* on as two, and one a byte longer than an invocation is refused.
C20_Witness ==
  /\ ~error_occurred_
  /\ processes # << >>
  /\ \E ev, fv \in BatchInvocationEvents :
       /\ ev.MofLength = 2 * SizeofInvocationInfo
       /\ fv.MofLength = SizeofInvocationInfo + 1
       /\ DispatchEvent(processes, error_occurred_, fail_on_module_conflict_,
                        ev).calls[1].n = 2
       /\ DispatchEvent(processes, error_occurred_, fail_on_module_conflict_,
                        fv).error_occurred_
       /\ DispatchEvent(processes, error_occurred_, fail_on_module_conflict_,
                        fv).calls = <<>>

\* C21 (B4): a ProcessAttach or ProcessDetach record whose module has size 0
\* or an empty path leaves the registry as it was (no ModuleSpace created,
\* no entry added, removed or marked) and latches no fault, under both
\* conflict policies.
C21_EmptyModuleEventsChangeNothing ==
  \A pid \in Pids, m \in ModuleInformation :
    (m.module_size = 0 \/ m.path = <<>>) =>
      \A fail \in BOOLEAN :
        \A type \in {"TRACE_PROCESS_ATTACH_EVENT", "TRACE_PROCESS_DETACH_EVENT"} :
          LET d == DispatchEvent(processes, FALSE, fail,
                                 ModuleEventOf(type, pid, m))
          IN  /\ d.processes = processes
              /\ ~d.error_occurred_
              /\ Len(d.calls) = 1

\* C21's case: a module without a path lies over a live entry of one
\* process, and another process is unknown; neither the detach of the one
\* nor the attach of the other touches the registry.
C21_Witness ==
  \E pid \in DOMAIN processes, q \in Pids, m \in ModuleInformation :
    \E e \in processes[pid] :
      /\ ~Known(processes, q)
      /\ m.path = <<>> /\ m.module_size > 0
      /\ ~e.is_dirty
      /\ EntryRange(e) = Range(m.base_address, m.module_size)
      /\ DispatchEvent(processes, FALSE, fail_on_module_conflict_,
                       ModuleEventOf("TRACE_PROCESS_DETACH_EVENT", pid, m)
                      ).processes = processes
      /\ DispatchEvent(processes, FALSE, fail_on_module_conflict_,
                       ModuleEventOf("TRACE_PROCESS_ATTACH_EVENT", q, m)
                      ).processes = processes

\* C22: a record of the recognized class of the reserved kind
\* TRACE_MODULE_EVENT is ignored: no callback, the registry unchanged, the
\* fault not latched.
C22_ReservedModuleEventIgnored ==
  \A ev \in Events :
    (ev.Guid = "kCallTraceEventClass" /\ ev.Type = "TRACE_MODULE_EVENT") =>
      LET d == DispatchEvent(processes, FALSE, fail_on_module_conflict_, ev)
      IN  /\ d.calls = <<>>
          /\ d.processes = processes
          /\ ~d.error_occurred_

\* The type codes of the enumeration of event kinds.
KnownTypes ==
  {"TRACE_ENTER_EVENT", "TRACE_EXIT_EVENT", "TRACE_BATCH_ENTER",
   "TRACE_PROCESS_ATTACH_EVENT", "TRACE_PROCESS_DETACH_EVENT",
   "TRACE_THREAD_ATTACH_EVENT", "TRACE_THREAD_DETACH_EVENT",
   "TRACE_PROCESS_ENDED", "TRACE_MODULE_EVENT", "TRACE_BATCH_INVOCATION",
   "TRACE_THREAD_NAME", "TRACE_INDEXED_FREQUENCY", "TRACE_DYNAMIC_SYMBOL",
   "TRACE_SAMPLE_DATA", "TRACE_FUNCTION_NAME_TABLE_ENTRY",
   "TRACE_STACK_TRACE", "TRACE_DETAILED_FUNCTION_CALL", "TRACE_COMMENT",
   "TRACE_PROCESS_HEAP"}

\* C23: a record of the recognized class whose type code is outside the
\* enumeration latches the fault, invokes no callback, and the dispatch
\* returns true.
C23_UnknownTypeLatches ==
  \A ev \in Events :
    (ev.Guid = "kCallTraceEventClass" /\ ev.Type \notin KnownTypes) =>
      LET d == DispatchEvent(processes, FALSE, fail_on_module_conflict_, ev)
      IN  /\ d.error_occurred_
          /\ d.calls = <<>>
          /\ d.ret
          /\ d.processes = processes

\* C23's case: no fault is latched, the registry is not empty, and a record
\* of an unknown type for a known pid is at hand.
C23_Witness ==
  /\ ~error_occurred_
  /\ \E ev \in Events :
       /\ ev.Guid = "kCallTraceEventClass" /\ ev.Type \notin KnownTypes
       /\ Known(processes, ev.ProcessId) /\ processes[ev.ProcessId] # {}
       /\ DispatchEvent(processes, error_occurred_, fail_on_module_conflict_,
                        ev).error_occurred_
       /\ DispatchEvent(processes, error_occurred_, fail_on_module_conflict_,
                        ev).ret

\* The handler callback that matches a record's kind.
CallbackOf(type) ==
  CASE type = "TRACE_ENTER_EVENT" -> "OnFunctionEntry"
    [] type = "TRACE_EXIT_EVENT" -> "OnFunctionExit"
    [] type = "TRACE_BATCH_ENTER" -> "OnBatchFunctionEntry"
    [] type = "TRACE_PROCESS_ATTACH_EVENT" -> "OnProcessAttach"
    [] type = "TRACE_PROCESS_DETACH_EVENT" -> "OnProcessDetach"
    [] type = "TRACE_THREAD_ATTACH_EVENT" -> "OnThreadAttach"
    [] type = "TRACE_THREAD_DETACH_EVENT" -> "OnThreadDetach"
    [] type = "TRACE_PROCESS_ENDED" -> "OnProcessEnded"
    [] type = "TRACE_BATCH_INVOCATION" -> "OnInvocationBatch"
    [] type = "TRACE_THREAD_NAME" -> "OnThreadName"
    [] type = "TRACE_INDEXED_FREQUENCY" -> "OnIndexedFrequency"
    [] type = "TRACE_DYNAMIC_SYMBOL" -> "OnDynamicSymbol"
    [] type = "TRACE_SAMPLE_DATA" -> "OnSampleData"
    [] type = "TRACE_FUNCTION_NAME_TABLE_ENTRY" -> "OnFunctionNameTableEntry"
    [] type = "TRACE_STACK_TRACE" -> "OnStackTrace"
    [] type = "TRACE_DETAILED_FUNCTION_CALL" -> "OnDetailedFunctionCall"
    [] type = "TRACE_COMMENT" -> "OnComment"
    [] type = "TRACE_PROCESS_HEAP" -> "OnProcessHeap"
    [] OTHER -> "none"

\* A full-length module record whose module_base_addr is null.
NullModuleRecord(ev) ==
  /\ ev.Type \in ModuleEventTypes
  /\ ev.MofLength >= SizeofTraceModuleData
  /\ ev.data.module_base_addr = 0

\* C24 as claimed: a dispatch of a record of the recognized class that
\* latches no fault has invoked exactly one callback, the one of the
\* record's kind, and a dispatch that latches the fault has invoked none.
C24_OneCallbackIffNoFault ==
  \A ev \in Events :
    ev.Guid = "kCallTraceEventClass" =>
      LET d == DispatchEvent(processes, FALSE, fail_on_module_conflict_, ev)
      IN  IF d.error_occurred_
            THEN d.calls = <<>>
            ELSE Len(d.calls) = 1 /\ d.calls[1].cb = CallbackOf(ev.Type)

\* C24 as the code has it: a dispatch that latches no fault has invoked
\* exactly one callback, the one of the record's kind, unless the record is
\* a module record with a null module_base_addr, for which it has invoked
\* none; a dispatch that latches the fault has invoked none, unless the
\* record is a ProcessEnded for a pid missing from the registry, for which
\* OnProcessEnded has been invoked.
C24_OneCallbackButNullModuleAndUnknownEnd ==
  \A ev \in Events :
    ev.Guid = "kCallTraceEventClass" =>
      LET d == DispatchEvent(processes, FALSE, fail_on_module_conflict_, ev)
          one == Len(d.calls) = 1 /\ d.calls[1].cb = CallbackOf(ev.Type)
      IN  /\ (~d.error_occurred_ /\ ~NullModuleRecord(ev)) => one
          /\ (~d.error_occurred_ /\ NullModuleRecord(ev)) => d.calls = <<>>
          /\ (d.error_occurred_ /\ ev.Type # "TRACE_PROCESS_ENDED")
               => d.calls = <<>>
          /\ (d.error_occurred_ /\ ev.Type = "TRACE_PROCESS_ENDED")
               => one /\ ~Known(processes, ev.ProcessId)
          /\ NullModuleRecord(ev) => ~d.error_occurred_

\* C24's case: one pid is known and one is not; the ProcessEnded of the
\* known pid passes with its callback, the ProcessEnded of the unknown one
\* latches after its callback, a null module record passes without one, and
\* a short record latches without one.
C24_Witness ==
  /\ ~error_occurred_
  /\ \E ev \in ProcessEndedEvents :
       LET d == DispatchEvent(processes, error_occurred_,
                              fail_on_module_conflict_, ev)
       IN  /\ Known(processes, ev.ProcessId)
           /\ ~d.error_occurred_ /\ Len(d.calls) = 1
  /\ \E ev \in ProcessEndedEvents :
       LET d == DispatchEvent(processes, error_occurred_,
                              fail_on_module_conflict_, ev)
       IN  /\ ~Known(processes, ev.ProcessId)
           /\ d.error_occurred_ /\ Len(d.calls) = 1
  /\ \E ev \in ModuleEvents :
       LET d == DispatchEvent(processes, error_occurred_,
                              fail_on_module_conflict_, ev)
       IN  /\ NullModuleRecord(ev)
           /\ ~d.error_occurred_ /\ d.calls = <<>>
  /\ \E ev \in PayloadEvents :
       LET d == DispatchEvent(processes, error_occurred_,
                              fail_on_module_conflict_, ev)
       IN  /\ ev.Type = "TRACE_PROCESS_HEAP"
           /\ d.error_occurred_ /\ d.calls = <<>>

\* C25: once the fault is latched no operation of the engine returns
\* error_occurred_ to false.
C25_FaultIsTerminal == [][error_occurred_ => error_occurred_']_vars

\* C26: RemoveModule(pid, m) for a valid m whose range intersects a stored
\* entry returns failure iff the first intersecting entry's range is not
\* m's range and fail_on_module_conflict_ holds; on success that entry is
\* marked dirty and stays, every other entry being untouched; on failure
\* nothing changes.
C26_RemoveFailsIffMismatchAndStrict ==
  \A pid \in DOMAIN processes, m \in ModuleInformation :
    (ValidModule(m) /\ Overlapping(processes, pid, m) # {}) =>
      LET r == RemoveModuleInformation(processes, fail_on_module_conflict_,
                                       pid, m)
          it == FirstCollision(processes, pid, m)
      IN  /\ ~r.ret <=> (/\ EntryRange(it) # Range(m.base_address, m.module_size)
                         /\ fail_on_module_conflict_)
          /\ r.ret =>
               r.processes =
                 [processes EXCEPT ![pid] =
                    (@ \ {it}) \cup {[it EXCEPT !.is_dirty = TRUE]}]
          /\ ~r.ret => r.processes = processes

\* C26's case: under the lenient policy a module spanning two live entries
\* is removed: the call succeeds and marks the first of them alone.
C26_Witness ==
  \E pid \in DOMAIN processes, m \in ModuleInformation :
    LET r == RemoveModuleInformation(processes, fail_on_module_conflict_,
                                     pid, m)
        it == FirstCollision(processes, pid, m)
    IN  /\ ~fail_on_module_conflict_
        /\ ValidModule(m)
        /\ Cardinality(Overlapping(processes, pid, m)) = 2
        /\ \A e \in processes[pid] : ~e.is_dirty
        /\ r.ret
        /\ { e \in r.processes[pid] : e.is_dirty }
             = {[it EXCEPT !.is_dirty = TRUE]}

\* C27: under fail_on_module_conflict_ a ProcessDetach record whose
\* module's range intersects a stored entry of another range latches the
\* fault.
C27_DetachMismatchLatches ==
  \A pid \in DOMAIN processes, m \in ModuleInformation :
    (/\ fail_on_module_conflict_
     /\ ValidModule(m)
     /\ Overlapping(processes, pid, m) # {}
     /\ EntryRange(FirstCollision(processes, pid, m))
          # Range(m.base_address, m.module_size))
      => DispatchEvent(processes, FALSE, fail_on_module_conflict_,
                       ModuleEventOf("TRACE_PROCESS_DETACH_EVENT", pid, m)
                      ).error_occurred_

\* The entries of pid's ModuleSpace in procs that are gone from it in after:
\* no entry of after holds the module, dirty or not.
Gone(procs, after, pid) ==
  { e \in SpaceOf(procs, pid) :
      \A f \in SpaceOf(after, pid) : InfoOf(f) # InfoOf(e) }

\* C28: an entry leaves a ModuleSpace only during an AddModule for its pid
\* whose range overlaps it, and only if it is dirty at that moment;
\* RemoveModule and RemoveProcess remove no entry; and of the records, only
\* a ProcessAttach for the pid with an overlapping module removes one.
C28_EntriesLeaveOnlyByDirtyEviction ==
  /\ \A pid \in Pids, m \in ModuleInformation :
       LET added == AddModuleInformation(processes, fail_on_module_conflict_,
                                         pid, m).processes
           removed == RemoveModuleInformation(processes,
                                              fail_on_module_conflict_,
                                              pid, m).processes
       IN  /\ \A q \in DOMAIN processes :
                /\ q \in DOMAIN added /\ q \in DOMAIN removed
                /\ Gone(processes, removed, q) = {}
                /\ \A e \in Gone(processes, added, q) :
                     /\ q = pid
                     /\ e.is_dirty
                     /\ Intersects(EntryRange(e),
                                   Range(m.base_address, m.module_size))
  /\ \A pid \in Pids :
       LET after == RemoveProcessInformation(processes, pid).processes
       IN  \A q \in DOMAIN processes :
             q \in DOMAIN after /\ Gone(processes, after, q) = {}
  /\ \A ev \in Events :
       LET after == DispatchEvent(processes, error_occurred_,
                                  fail_on_module_conflict_, ev).processes
       IN  \A q \in DOMAIN processes :
             /\ q \in DOMAIN after
             /\ \A e \in Gone(processes, after, q) :
                  /\ ev.Type = "TRACE_PROCESS_ATTACH_EVENT"
                  /\ ev.ProcessId = q
                  /\ e.is_dirty
                  /\ Intersects(EntryRange(e),
                                Range(ev.data.module_base_addr,
                                      ev.data.module_base_size))

\* C28's case: a process holds a dirty entry and a live one, and a module
\* over the dirty one alone is added: the dirty entry leaves, the live one
\* stays.
C28_Witness ==
  \E pid \in DOMAIN processes, m \in ModuleInformation :
    \E e, f \in processes[pid] :
      LET r == AddModuleInformation(processes, fail_on_module_conflict_,
                                    pid, m)
      IN  /\ e.is_dirty /\ ~f.is_dirty
          /\ Overlapping(processes, pid, m) = {e}
          /\ Gone(processes, r.processes, pid) = {e}
          /\ f \in SpaceOf(r.processes, pid)
          /\ r.exit = "replaced"

\* The case of C29 in the claim's words: the valid module m overlaps a live
\* entry, and the first entry it collides with is not the same module
\* under another path.
ConflictingAdd(pid, m) ==
  /\ ValidModule(m)
  /\ \E e \in Overlapping(processes, pid, m) : ~e.is_dirty
  /\ ~PathAlias(m, FirstCollision(processes, pid, m))

\* C29 as claimed: an AddModule that ends in an unreconciled conflict
\* leaves the pid's ModuleSpace exactly as it was.
C29_ConflictChangesNothing ==
  \A pid \in DOMAIN processes, m \in ModuleInformation :
    ConflictingAdd(pid, m) =>
      AddModuleInformation(processes, fail_on_module_conflict_, pid, m
                          ).processes = processes

\* C29 as the code has it: an AddModule that ends in an unreconciled
\* conflict returns ~fail_on_module_conflict_ and has removed the dirty
\* entries overlapping m that sort before the first live entry overlapping
\* m, and nothing else: m is not added, no live entry is removed or
\* changed, and the ModuleSpace is as it was iff the first entry m collides
\* with is live.
C29_ConflictRemovesLeadingDirtyEntries ==
  \A pid \in DOMAIN processes, m \in ModuleInformation :
    ConflictingAdd(pid, m) =>
      LET r == AddModuleInformation(processes, fail_on_module_conflict_,
                                    pid, m)
          live == { e \in Overlapping(processes, pid, m) : ~e.is_dirty }
          leading == { e \in Overlapping(processes, pid, m) :
                         /\ e.is_dirty
                         /\ \A f \in live :
                              RangeLess(EntryRange(e), EntryRange(f)) }
      IN  /\ r.ret = ~fail_on_module_conflict_
          /\ r.processes = [processes EXCEPT ![pid] = @ \ leading]
          /\ (r.processes = processes)
               <=> ~FirstCollision(processes, pid, m).is_dirty

\* C29's case: a module lies over a dirty entry followed by a live one; the
\* add removes the dirty entry and ends in the conflict with the live one.
C29_Witness ==
  \E pid \in DOMAIN processes, m \in ModuleInformation :
    \E e, f \in processes[pid] :
      LET r == AddModuleInformation(processes, fail_on_module_conflict_,
                                    pid, m)
      IN  /\ ConflictingAdd(pid, m)
          /\ e.is_dirty /\ ~f.is_dirty
          /\ RangeLess(EntryRange(e), EntryRange(f))
          /\ Overlapping(processes, pid, m) = {e, f}
          /\ r.processes[pid] = {f}
          /\ r.ret = ~fail_on_module_conflict_

\* C30: in every reachable state no two entries of a ModuleSpace have
\* overlapping ranges, dirty or not.
C30_StoredRangesDisjoint ==
  \A pid \in DOMAIN processes :
    \A e, f \in processes[pid] :
      e # f => ~Intersects(EntryRange(e), EntryRange(f))

\* C30's case: a dirty entry and a live entry stand side by side, and the
\* map turns down a module that overlaps the dirty one alone.
C30_Witness ==
  \E pid \in DOMAIN processes, m \in ModuleInformation :
    \E e, f \in processes[pid] :
      /\ e.is_dirty /\ ~f.is_dirty
      /\ RangeEnd(EntryRange(e)) = f.base_address
      /\ ValidModule(m)
      /\ Overlapping(processes, pid, m) = {e}
      /\ ~FindOrInsert(processes[pid], ModuleRange(m),
                       AnnotatedModuleInformation(m)).inserted

\* C31: whenever the handler is invoked for a BatchEnter, StackTrace,
\* SampleData or IndexedFrequency record, the prefix offset plus the tail
\* the header announces, computed without wraparound, is at most the
\* payload length, also for counts whose product wraps in size_t.
C31_LengthChecksSoundUnderWraparound ==
  \A ev \in Events :
    (/\ ev.Guid = "kCallTraceEventClass"
     /\ ev.Type \in {"TRACE_BATCH_ENTER", "TRACE_STACK_TRACE",
                     "TRACE_SAMPLE_DATA", "TRACE_INDEXED_FREQUENCY"}
     /\ DispatchEvent(processes, FALSE, fail_on_module_conflict_, ev).calls
          # <<>>)
      => ExpectedLength(ev) <= ev.MofLength

\* C32: for every well-framed BatchEnter record, the batch handed to
\* OnBatchFunctionEntry has num_calls = 0 or a last call record with a
\* non-null function, also when more than one trailing call is null.
C32_TrimmedBatchEndsNonNull ==
  \A ev \in Events :
    WellFramedBatch(ev) =>
      LET d == DispatchEvent(processes, FALSE, fail_on_module_conflict_, ev)
      IN  /\ Len(d.calls) = 1
          /\ \/ d.calls[1].n = 0
             \/ ev.data.calls[d.calls[1].n] # 0

\* C33: after a ProcessAttach record for pid p that latched no fault and
\* reached OnProcessAttach, whatever module it carried, a ProcessEnded
\* record for p latches no fault.
C33_AttachedProcessCanBeEnded ==
  \A pid \in Pids, m \in ModuleInformation :
    LET attached == DispatchEvent(processes, FALSE, fail_on_module_conflict_,
                                  ModuleEventOf("TRACE_PROCESS_ATTACH_EVENT",
                                                pid, m))
        ended == DispatchEvent(attached.processes, attached.error_occurred_,
                               fail_on_module_conflict_, ProcessEndedOf(pid))
    IN  (~attached.error_occurred_ /\ Len(attached.calls) = 1)
          => ~ended.error_occurred_

\* The ModuleSpaces of the processes other than pid are in after what they
\* are in processes, and so is the set of those processes.
OthersUntouched(after, pid) ==
  /\ (DOMAIN after) \ {pid} = (DOMAIN processes) \ {pid}
  /\ \A q \in (DOMAIN processes) \ {pid} : after[q] = processes[q]

\* C34: AddModule, RemoveModule and RemoveProcess for pid p, and every
\* record carrying process id p, leave the ModuleSpace of every other pid
\* as it was: entries, ranges and dirty flags.
C34_ProcessesAreIsolated ==
  /\ \A pid \in Pids, m \in ModuleInformation :
       /\ OthersUntouched(
            AddModuleInformation(processes, fail_on_module_conflict_,
                                 pid, m).processes, pid)
       /\ OthersUntouched(
            RemoveModuleInformation(processes, fail_on_module_conflict_,
                                    pid, m).processes, pid)
  /\ \A pid \in Pids :
       OthersUntouched(RemoveProcessInformation(processes, pid).processes,
                       pid)
  /\ \A ev \in Events :
       OthersUntouched(
         DispatchEvent(processes, error_occurred_, fail_on_module_conflict_,
                       ev).processes, ev.ProcessId)

\* C34's case: two processes hold a live module over the same range; a
\* conflicting add, a remove and a process end in the one change its own
\* ModuleSpace or none, and the module of the other stays live.
C34_Witness ==
  \E p, q \in DOMAIN processes :
    \E e \in processes[p], f \in processes[q], m \in ModuleInformation :
      LET added == AddModuleInformation(processes, fail_on_module_conflict_,
                                        p, m)
          removed == RemoveModuleInformation(processes,
                                             fail_on_module_conflict_,
                                             p, InfoOf(e))
          ended == RemoveProcessInformation(processes, p)
      IN  /\ p # q
          /\ ~e.is_dirty /\ ~f.is_dirty
          /\ EntryRange(e) = EntryRange(f)
          /\ added.exit = "conflict"
          /\ removed.processes[p] # processes[p]
          /\ ended.processes[p] # processes[p]
          /\ added.processes[q] = {f}
          /\ removed.processes[q] = {f}
          /\ ended.processes[q] = {f}

============================================================================
